---- MODULE Spec2Model ----
(***************************************************************************)
(* A model of nautobot_design_builder/design.py: the Journal, the          *)
(* ModelInstance node (attribute parsing, load-or-create, field            *)
(* application, save) and the Builder (extension registry,                 *)
(* implement_design, commit / roll_back).                                  *)
(*                                                                         *)
(* A Python str is a sequence of tokens: "!get:name" is                    *)
(* <<"!", "get", ":", "name">>, so that startswith, lstrip and split are   *)
(* computed, not assumed.  A Python dict is a sequence of <<key, value>>   *)
(* pairs in insertion order.                                               *)
(***************************************************************************)
EXTENDS Integers, Sequences, FiniteSets, TLC

VARIABLES
    store,          \* the object store: the saved records, pk = position
    journal,        \* Builder.journal: [index, created, updated]
    logCalls,       \* the <<pk, _created>> pairs Journal.log was called with
    extObject,      \* per registered extension: times extn["class"](self) was called;
                    \* extn["object"] is None while it is 0
    pc,             \* position of the caller / of implement_design
    commitFlag,     \* the commit argument of the running implement_design
    exc,            \* the exception being handled by the except clause
    result,         \* how the last implement_design ended
    hookIdx,        \* position of the loop of commit() / roll_back()
    commitHooks,    \* this call: times each extension's commit() ran
    rollBackHooks,  \* this call: times each extension's roll_back() ran
    hookRaised,     \* this call: the <<hook, extension>> pairs that raised
    hookLog,        \* this call: the hooks in the order they were invoked
    commitCalls,    \* this call: times Builder.commit() was entered
    rollBackCalls,  \* this call: times Builder.roll_back() was entered
    startStore,     \* the store when the running call started
    trav,           \* this call: what the traversal has consumed so far
    last,           \* the last node the traversal constructed
    heap            \* the dicts and lists of a design as objects with identity

vars == <<store, journal, logCalls, extObject, pc, commitFlag, exc, result, hookIdx,
          commitHooks, rollBackHooks, hookRaised, hookLog, commitCalls,
          rollBackCalls, startStore, trav, last, heap>>

--------------------------------------------------------------------------
(* Bounds *)

MaxRecords == 4

MaxLogs == 5

MaxEntries == 2

--------------------------------------------------------------------------
(* Python str and dict *)

startswith(s, tok) == Len(s) > 0 /\ s[1] = tok

RECURSIVE lstrip(_, _)
lstrip(s, tok) == IF startswith(s, tok) THEN lstrip(Tail(s), tok) ELSE s

contains(s, tok) == \E i \in DOMAIN s : s[i] = tok

FirstIndex(s, tok) == CHOOSE i \in DOMAIN s : s[i] = tok /\ \A j \in 1..(i - 1) : s[j] # tok

\* str.split(sep): every piece between separators, at least one piece
RECURSIVE split(_, _)
split(s, sep) ==
    IF ~contains(s, sep) THEN <<s>>
    ELSE LET i == FirstIndex(s, sep)
         IN <<SubSeq(s, 1, i - 1)>> \o split(SubSeq(s, i + 1, Len(s)), sep)

\* str.split(sep, 1): at most two pieces
split1(s, sep) ==
    IF ~contains(s, sep) THEN <<s>>
    ELSE LET i == FirstIndex(s, sep)
         IN <<SubSeq(s, 1, i - 1), SubSeq(s, i + 1, Len(s))>>

DictKeys(d) == [i \in DOMAIN d |-> d[i][1]]

DictHas(d, k) == \E i \in DOMAIN d : d[i][1] = k

DictGet(d, k) == d[CHOOSE i \in DOMAIN d : d[i][1] = k][2]

\* d[k] = v: in place when the key is there, appended otherwise
DictSet(d, k, v) ==
    IF DictHas(d, k)
    THEN [i \in DOMAIN d |-> IF d[i][1] = k THEN <<k, v>> ELSE d[i]]
    ELSE Append(d, <<k, v>>)

RECURSIVE DictDel(_, _)
DictDel(d, k) ==
    IF d = <<>> THEN <<>>
    ELSE IF d[1][1] = k THEN DictDel(Tail(d), k)
    ELSE <<d[1]>> \o DictDel(Tail(d), k)

RECURSIVE DictUpdate(_, _)
DictUpdate(d, e) ==
    IF e = <<>> THEN d ELSE DictUpdate(DictSet(d, e[1][1], e[1][2]), Tail(e))

--------------------------------------------------------------------------
(* Values *)

Str(toks) == [ty |-> "str", s |-> toks]

None == [ty |-> "none", s |-> <<>>]

\* an object a value extension returned
Obj(toks) == [ty |-> "obj", s |-> toks]

\* a dict value (custom_fields)
Dict(d) == [ty |-> "dict", s |-> <<>>, d |-> d]

\* a list value: its items have no keys
List(items) == [ty |-> "list", s |-> <<>>, d |-> [i \in DOMAIN items |-> <<<<>>, items[i]>>]]

\* a dict or list held by reference: the object at address a
Ref(a) == [ty |-> "ref", s |-> <<>>, a |-> a]

IsStr(v) == v.ty = "str"

\* a saved record, as a value: model.instance
RecRef(pk) == [ty |-> "rec", s |-> <<>>, pk |-> pk]

\* a ModelInstance, as a value
NodeRef(pk) == [ty |-> "node", s |-> <<>>, pk |-> pk]

--------------------------------------------------------------------------
(* The store and the Journal *)

ModelTypes == {"Site", "Region"}

\* Builder.model_map: plural name -> model class
model_map == [k \in {"sites", "regions"} |-> IF k = "sites" THEN "Site" ELSE "Region"]

FieldNames == {"name", "status", "region"}

\* the model a relationship field leads to (rel.get_queryset().model); ""
\* for an attribute that is not a relationship
RelatedModel(type, field) == IF field = <<"region">> THEN "Region" ELSE ""

NoFields == [f \in FieldNames |-> None]

NoCf == <<>>

Record(type, fields, cf) == [type |-> type, fields |-> fields, cf |-> cf]

\* the records the store holds before the design is implemented
InitStore ==
    <<Record("Site", [NoFields EXCEPT !["name"] = Str(<<"a">>)], NoCf),
      Record("Region", [NoFields EXCEPT !["name"] = Str(<<"r">>)], NoCf)>>

NewJournal == [index |-> {}, created |-> <<>>, updated |-> <<>>]

setdefault(d, k, v) == IF k \in DOMAIN d THEN d ELSE [x \in DOMAIN d \cup {k} |-> IF x = k THEN v ELSE d[x]]

IndexAdd(d, k, pk) ==
    LET e == setdefault(d, k, {}) IN [e EXCEPT ![k] = e[k] \cup {pk}]

logAlways(j, pk, type, created) ==
    [index |-> j.index \cup {pk},
     created |-> IF created THEN IndexAdd(j.created, type, pk) ELSE j.created,
     updated |-> IF created THEN j.updated ELSE IndexAdd(j.updated, type, pk)]

\* Journal.log(model): pk = model.instance.pk, created = model._created
log(j, pk, type, created) ==
    IF pk \notin j.index
    THEN [index |-> j.index \cup {pk},
          created |-> IF created THEN IndexAdd(j.created, type, pk) ELSE j.created,
          updated |-> IF created THEN j.updated ELSE IndexAdd(j.updated, type, pk)]
    ELSE j

\* every identity of an index (created or updated), over all model types
Identities(index) == UNION {index[t] : t \in DOMAIN index}

--------------------------------------------------------------------------
(* Exceptions *)

Exc(kind, origin) == [kind |-> kind, origin |-> origin]

NoExc == Exc("", "")

DesignImplementationError == Exc("DesignImplementationError", "traversal")

DesignValidationError == Exc("DesignValidationError", "traversal")

DoesNotExistError == Exc("DoesNotExistError", "traversal")

MultipleObjectsReturnedError == Exc("MultipleObjectsReturnedError", "traversal")

\* builtin exceptions the interpreter raises inside the node code
KeyError == Exc("KeyError", "traversal")

IndexError == Exc("IndexError", "traversal")

ValueError == Exc("ValueError", "traversal")

AttributeError == Exc("AttributeError", "traversal")

EmptyDesignError == Exc("DesignImplementationError", "empty design")

\* what a commit or roll_back hook of extension e raises
HookError(hook, e) == [kind |-> "HookError", origin |-> hook, ext |-> e]

--------------------------------------------------------------------------
(* The extension registry *)

\* The extension classes handed to Builder.__init__, in registration order:
\* an attribute extension and a value extension that define both hooks, and
\* a value extension that defines neither.
ExtClasses ==
    << [tag |-> <<"git">>, attribute |-> TRUE, value |-> FALSE, commit |-> TRUE, roll_back |-> TRUE],
       [tag |-> <<"ref">>, attribute |-> FALSE, value |-> TRUE, commit |-> TRUE, roll_back |-> TRUE],
       [tag |-> <<"next">>, attribute |-> FALSE, value |-> TRUE, commit |-> FALSE, roll_back |-> FALSE] >>

\* self.extensions["extensions"]
Extensions == DOMAIN ExtClasses

IsKind(e, ext_type) == IF ext_type = "attribute" THEN ExtClasses[e].attribute ELSE ExtClasses[e].value

\* self.extensions[ext_type].get(tag): the last registered class wins; 0 is None
Registered(ext_type, tag) ==
    LET S == {e \in Extensions : IsKind(e, ext_type) /\ ExtClasses[e].tag = tag}
    IN IF S = {} THEN 0 ELSE CHOOSE e \in S : \A f \in S : f <= e

get_extensionAlways(objs, ext_type, tag) ==
    LET e == Registered(ext_type, tag)
    IN IF e = 0 THEN [objs |-> objs, extn |-> 0]
       ELSE [objs |-> [objs EXCEPT ![e] = @ + 1], extn |-> e]

\* Builder.get_extension: the instance (here: its index), made on first access
get_extension(objs, ext_type, tag) ==
    LET e == Registered(ext_type, tag)
    IN IF e = 0 THEN [objs |-> objs, extn |-> 0]
       ELSE IF objs[e] = 0 THEN [objs |-> [objs EXCEPT ![e] = 1], extn |-> e]
       ELSE [objs |-> objs, extn |-> e]

\* extn.value(arg) of value extension e: an object naming the tag and arg
ExtValue(e, arg) == Obj(ExtClasses[e].tag \o arg)

ResolveParts(w, value, parts, g) ==
    IF Len(parts) # 2
    THEN [w |-> w, err |-> ValueError, value |-> value]
    ELSE IF g.extn # 0
    THEN [w |-> [w EXCEPT !.objs = g.objs], err |-> NoExc, value |-> ExtValue(g.extn, parts[2])]
    ELSE [w |-> [w EXCEPT !.objs = g.objs], err |-> DesignImplementationError, value |-> value]

ResolveStr(w, value, parts) ==
    ResolveParts(w, value, parts,
                 IF Len(parts) = 2 THEN get_extension(w.objs, "value", parts[1])
                 ELSE [objs |-> w.objs, extn |-> 0])

\* Builder.resolve_value, on world w = [store, journal, logCalls, objs]: the tuple
\* (action, arg) takes exactly two pieces of the split
resolve_value(w, value) ==
    IF IsStr(value) /\ startswith(value.s, "!")
    THEN ResolveStr(w, value, split1(lstrip(value.s, "!"), ":"))
    ELSE [w |-> w, err |-> NoExc, value |-> value]

\* the dict branch of resolve_values: item by item over a copy
RECURSIVE resolve_items(_, _, _)
ResolveItem(r, d, i) ==
    IF r.err # NoExc THEN [w |-> r.w, err |-> r.err, d |-> d]
    ELSE resolve_items(r.w, [d EXCEPT ![i] = <<d[i][1], r.value>>], i + 1)

resolve_items(w, d, i) ==
    IF i > Len(d) THEN [w |-> w, err |-> NoExc, d |-> d]
    ELSE ResolveItem(resolve_value(w, d[i][2]), d, i)

ResolvedDict(r) == [w |-> r.w, err |-> r.err, value |-> Dict(r.d)]

\* Builder.resolve_values
resolve_values(w, value) ==
    IF IsStr(value) THEN resolve_value(w, value)
    ELSE IF value.ty = "dict" THEN ResolvedDict(resolve_items(w, value.d, 1))
    ELSE [w |-> w, err |-> NoExc, value |-> value]

--------------------------------------------------------------------------
(* ModelInstance: the node *)

GET == <<"get">>

CREATE == <<"create">>

UPDATE == <<"update">>

CREATE_OR_UPDATE == <<"create_or_update">>

ACTION_CHOICES == {GET, CREATE, UPDATE, CREATE_OR_UPDATE}

\* self._action is None
NoAction == <<>>

\* hasattr(self.model_class, name): the fields of the model
ModelHasAttr(type, name) == Len(name) = 1 /\ name[1] \in FieldNames

\* hasattr(self, key) and hasattr(self.__class__, key): the field descriptors
\* ModelClass.factory adds, and the class attribute ModelClass.deferred
NodeHasAttr(type, key) == Len(key) = 1 /\ key[1] \in FieldNames \cup {"deferred"}

\* Callback event types
PRE_SAVE == "PRE_SAVE"

POST_INSTANCE_SAVE == "POST_INSTANCE_SAVE"

POST_SAVE == "POST_SAVE"

\* ModelInstance.__init__ up to the call of _parse_attributes; id numbers the
\* nodes in the order of their construction, parent is the id of the node
\* that made this one through create_child (0: none), signals the events a
\* handler is connected to
InitNode(type, attributes) ==
    [type |-> type, attributes |-> attributes, filter |-> <<>>, action |-> NoAction,
     kwargs |-> <<>>, custom_fields |-> <<>>, created |-> FALSE, pk |-> 0,
     rec |-> Record(type, NoFields, NoCf), loaded |-> FALSE, deferred |-> None,
     applied |-> {}, id |-> 0, parent |-> 0, signals |-> {}]

\* an entry of the record of what the nodes did, in order
Event(op, node, arg) == [op |-> op, node |-> node.id, arg |-> arg]

\* ModelInstance.connect, for every signal of hs: a handler is appended to
\* self.signals[signal]
connect(node, hs) == [node EXCEPT !.signals = @ \cup hs]

\* ModelInstance._send: each handler runs and the record is reloaded
send(ev, node, signal) ==
    IF signal \in node.signals
    THEN ev \o <<Event(signal, node, 0), Event("send_refresh", node, 0)>>
    ELSE ev

\* the key is the tag of an attribute extension: what its result adds
ApplyExtension(st1, names, ext_result) ==
    CASE ext_result.ty = "tuple" ->
           [st1 EXCEPT !.node.attributes = DictSet(st1.node.attributes, ext_result.k, ext_result.v)]
      [] ext_result.ty = "dict" ->
           [st1 EXCEPT !.node.attributes = DictUpdate(st1.node.attributes, ext_result.d),
                       !.names = names \o DictKeys(ext_result.d)]
      [] ext_result.ty = "none" -> st1
      [] OTHER -> [st1 EXCEPT !.err = DesignImplementationError]

ApplyActionNoFilter(st1, args, value, action1) ==
    IF Len(args) < 2
    THEN [st1 EXCEPT !.node.action = action1, !.err = IndexError]
    ELSE [st1 EXCEPT !.node.action = action1]

\* the key is get, update or create_or_update: self._action is assigned
\* first, so the comparison that follows reads the value just assigned
ApplyAction(st1, args, value, action1) ==
    IF Len(args) < 2
    THEN [st1 EXCEPT !.node.action = action1, !.err = IndexError]
    ELSE IF action1 = NoAction
    THEN [st1 EXCEPT !.node.action = args[1],
                     !.node.filter = DictSet(st1.node.filter, args[2], value)]
    ELSE IF action1 # args[1]
    THEN [st1 EXCEPT !.node.action = action1,
                     !.node.filter = DictSet(st1.node.filter, args[2], value),
                     !.err = DesignImplementationError]
    ELSE [st1 EXCEPT !.node.action = action1,
                     !.node.filter = DictSet(st1.node.filter, args[2], value)]

ApplyDirective(st, key, value, args, g, ext_result) ==
    IF g.extn # 0
    THEN ApplyExtension([st EXCEPT !.w.objs = g.objs,
                                   !.node.attributes = DictDel(st.node.attributes, key)],
                        st.names, ext_result)
    ELSE IF args[1] \in {GET, UPDATE, CREATE_OR_UPDATE}
    THEN ApplyAction([st EXCEPT !.w.objs = g.objs,
                                !.node.attributes = DictDel(st.node.attributes, key)],
                     args, value, args[1])
    ELSE [st EXCEPT !.w.objs = g.objs,
                    !.node.attributes = DictDel(st.node.attributes, key),
                    !.err = DesignImplementationError]

ParseArgs(st, key, args, ext_result) ==
    ApplyDirective(st, key, DictGet(st.node.attributes, key), args,
                   get_extension(st.w.objs, "attribute", args[1]), ext_result)

\* the branch of _parse_attributes for a key that starts with "!"
ParseDirective(st, key, ext_result) ==
    ParseArgs(st, key, split(lstrip(key, "!"), ":"), ext_result)

RECURSIVE ParseLoop(_, _)
\* the branch of _parse_attributes for a key "field__search"
ParseShorthand(st1, key, pieces, value, ext_result) ==
    IF ~ModelHasAttr(st1.node.type, pieces[1])
    THEN [st1 EXCEPT !.err = DesignImplementationError]
    ELSE ParseLoop([st1 EXCEPT !.node.attributes =
                       DictSet(DictDel(st1.node.attributes, key), pieces[1],
                               Dict(<< <<(<<"!", "get", ":">> \o pieces[2]), value>> >>))],
                   ext_result)

\* the body of the loop once the value of the key is resolved
ParseKey(st1, key, ext_result) ==
    IF startswith(key, "!")
    THEN ParseLoop(ParseDirective(st1, key, ext_result), ext_result)
    ELSE IF contains(key, "__")
    THEN ParseShorthand(st1, key, split1(key, "__"), DictGet(st1.node.attributes, key), ext_result)
    ELSE IF ~NodeHasAttr(st1.node.type, key)
    THEN ParseLoop([st1 EXCEPT !.node.attributes = DictDel(st1.node.attributes, key),
                               !.node.kwargs = DictSet(st1.node.kwargs, key,
                                                       DictGet(st1.node.attributes, key))],
                   ext_result)
    ELSE ParseLoop(st1, ext_result)

ParseResolved(st0, key, r, ext_result) ==
    IF r.err # NoExc
    THEN [st0 EXCEPT !.w = r.w, !.err = r.err]
    ELSE ParseKey([st0 EXCEPT !.w = r.w,
                              !.node.attributes = DictSet(st0.node.attributes, key, r.value)],
                  key, ext_result)

\* the loop of _parse_attributes over attribute_names
ParseLoop(st, ext_result) ==
    IF st.err # NoExc \/ st.names = <<>> THEN st
    ELSE IF ~DictHas(st.node.attributes, Head(st.names))
    THEN [st EXCEPT !.names = Tail(st.names), !.err = KeyError]
    ELSE ParseResolved([st EXCEPT !.names = Tail(st.names)], Head(st.names),
                       resolve_values(st.w, DictGet(st.node.attributes, Head(st.names))),
                       ext_result)

\* the end of _parse_attributes: the default action and its check
ParseEnd(st, action) ==
    IF st.err # NoExc THEN [w |-> st.w, err |-> st.err, node |-> st.node]
    ELSE IF action \notin ACTION_CHOICES
    THEN [w |-> st.w, err |-> DesignImplementationError, node |-> st.node]
    ELSE [w |-> [st.w EXCEPT !.ev = Append(st.w.ev,
                     Event("parsed", st.node, [action |-> action, filter |-> st.node.filter]))],
          err |-> NoExc, node |-> [st.node EXCEPT !.action = action]]

ParseDone(st) == ParseEnd(st, IF st.node.action = NoAction THEN CREATE ELSE st.node.action)

ParseStart(w, node, custom, attrs, ext_result) ==
    ParseDone(ParseLoop([w |-> w, err |-> NoExc, names |-> DictKeys(attrs),
                         node |-> [node EXCEPT !.custom_fields = custom, !.attributes = attrs]],
                        ext_result))

\* ModelInstance._parse_attributes; ext_result is what an attribute
\* extension's attribute() returns when one is invoked
parse_attributes(w, node, ext_result) ==
    ParseStart(w, node,
               IF DictHas(node.attributes, <<"custom_fields">>)
               THEN DictGet(node.attributes, <<"custom_fields">>).d ELSE <<>>,
               DictDel(node.attributes, <<"custom_fields">>), ext_result)

\* _map_query_values: a ModelInstance value is replaced by its record
RECURSIVE map_query_values(_)
map_query_values(query) ==
    [i \in DOMAIN query |->
        IF query[i][2].ty = "node" THEN <<query[i][1], RecRef(query[i][2].pk)>>
        ELSE IF query[i][2].ty = "dict" THEN <<query[i][1], Dict(map_query_values(query[i][2].d))>>
        ELSE query[i]]

\* whether a saved record satisfies every criterion of the query
Matches(rec, type, query) ==
    /\ rec.type = type
    /\ \A i \in DOMAIN query :
          /\ ModelHasAttr(type, query[i][1])
          /\ rec.fields[query[i][1][1]] = query[i][2]

\* manager.get(**query): the primary keys of the records it matches
Lookup(st, type, query) == {pk \in DOMAIN st : Matches(st[pk], type, query)}

\* full_clean(): the store's validation; a record needs a name
Valid(rec) == rec.fields["name"].ty \in {"str", "obj"}

\* self.instance.save(): insert a new record or overwrite the loaded one
StoreSave(st, node) ==
    IF node.pk = 0 THEN Append(st, node.rec) ELSE [st EXCEPT ![node.pk] = node.rec]

\* save: self._created = False, then self.creator.journal.log(self)
save_journal(j, node1, pk) == log(j, pk, node1.rec.type, node1.created)

SavedEventsPostFirst(ev, node, pk) ==
    send(send(ev, node, POST_INSTANCE_SAVE), node, POST_SAVE)
        \o <<Event("save", node, pk), Event("clear_created", node, 0),
             Event("log", node, pk), Event("refresh_from_db", node, 0)>>

\* what save does once full_clean() has passed, in the order of the code
SavedEvents(ev, node, pk) ==
    send(send(ev \o <<Event("save", node, pk), Event("clear_created", node, 0),
                      Event("log", node, pk), Event("refresh_from_db", node, 0)>>,
              node, POST_INSTANCE_SAVE),
         node, POST_SAVE)

Saved(w, node, st1, pk) ==
    [w |-> [w EXCEPT !.store = st1,
                     !.journal = save_journal(w.journal, [node EXCEPT !.created = FALSE], pk),
                     !.logCalls = w.logCalls \cup {<<pk, FALSE>>},
                     !.ev = SavedEvents(w.ev, node, pk)],
     err |-> NoExc,
     node |-> [node EXCEPT !.created = FALSE, !.pk = pk, !.rec = st1[pk]]]

SaveCleanLate(w, node) ==
    [Saved(w, node, StoreSave(w.store, node), IF node.pk = 0 THEN Len(w.store) + 1 ELSE node.pk)
        EXCEPT !.err = IF Valid(node.rec) THEN NoExc ELSE DesignValidationError]

\* full_clean(): a ValidationError becomes a DesignValidationError
SaveClean(w, node) ==
    IF ~Valid(node.rec)
    THEN [w |-> w, err |-> DesignValidationError, node |-> node]
    ELSE Saved(w, node, StoreSave(w.store, node),
               IF node.pk = 0 THEN Len(w.store) + 1 ELSE node.pk)

saveAlways(w, node) ==
    SaveClean([w EXCEPT !.ev = Append(send(w.ev, node, PRE_SAVE), Event("full_clean", node, 0))],
              node)

\* ModelInstance.save
save(w, node) ==
    IF node.action = GET THEN [w |-> w, err |-> NoExc, node |-> node]
    ELSE SaveClean([w EXCEPT !.ev = Append(send(w.ev, node, PRE_SAVE),
                                           Event("full_clean", node, 0))],
                   node)

\* the last lines of _load_instance: self.model_class(**self._kwargs), which
\* raises TypeError for a keyword that names no field of the model
Construct(w, node) ==
    IF node.kwargs # <<>>
    THEN [w |-> w, err |-> DesignImplementationError, node |-> node]
    ELSE [w |-> w, err |-> NoExc,
          node |-> [node EXCEPT !.rec = Record(node.type, NoFields, NoCf), !.pk = 0,
                                !.created = TRUE, !.loaded = TRUE]]

LoadedAsNew(w, node, pk) ==
    [w |-> w, err |-> NoExc,
     node |-> [node EXCEPT !.rec = w.store[pk], !.pk = 0, !.created = TRUE, !.loaded = TRUE]]

\* the record the lookup found becomes self.instance
Loaded(w, node, pk) ==
    [w |-> w, err |-> NoExc,
     node |-> [node EXCEPT !.rec = w.store[pk], !.pk = pk, !.loaded = TRUE]]

LoadFoundNoFold(w, node, found, field_values) ==
    IF node.action = GET
    THEN IF Cardinality(found) # 1 THEN [w |-> w, err |-> DoesNotExistError, node |-> node]
         ELSE Loaded(w, node, CHOOSE x \in found : TRUE)
    ELSE IF node.action \in {UPDATE, CREATE_OR_UPDATE} /\ found # {}
    THEN Loaded(w, node, CHOOSE x \in found : TRUE)
    ELSE IF node.action = UPDATE
    THEN [w |-> w, err |-> DesignImplementationError, node |-> node]
    ELSE Construct(w, node)

LoadFoundOrCreate(w, node, found, field_values) ==
    IF node.action = GET
    THEN IF Cardinality(found) # 1 THEN [w |-> w, err |-> DoesNotExistError, node |-> node]
         ELSE Loaded(w, node, CHOOSE x \in found : TRUE)
    ELSE IF node.action \in {UPDATE, CREATE_OR_UPDATE} /\ found # {}
    THEN Loaded(w, node, CHOOSE x \in found : TRUE)
    ELSE Construct(w, [node EXCEPT !.attributes = DictUpdate(node.attributes, field_values)])

LoadFound(w, node, found, field_values) ==
    IF node.action = GET
    THEN IF found = {} THEN [w |-> w, err |-> DoesNotExistError, node |-> node]
         ELSE IF Cardinality(found) > 1
         THEN [w |-> w, err |-> MultipleObjectsReturnedError, node |-> node]
         ELSE Loaded(w, node, CHOOSE x \in found : TRUE)
    ELSE IF node.action \in {UPDATE, CREATE_OR_UPDATE}
    THEN IF Cardinality(found) > 1
         THEN [w |-> w, err |-> MultipleObjectsReturnedError, node |-> node]
         ELSE IF found # {}
         THEN Loaded(w, node, CHOOSE x \in found : TRUE)
         ELSE IF node.action = UPDATE
         THEN [w |-> w, err |-> DesignImplementationError, node |-> node]
         ELSE Construct(w, [node EXCEPT !.created = TRUE,
                                        !.attributes = DictUpdate(node.attributes, field_values)])
    ELSE IF node.action # CREATE
    THEN [w |-> w, err |-> DesignImplementationError, node |-> node]
    ELSE Construct(w, node)

\* "field__search" criteria become nested lookups: {"field": {"!get:search": value}}
NestOne(query, pieces, value, nested) ==
    DictSet(query, pieces[1], Dict(DictSet(nested, <<"!", "get", ":">> \o pieces[2], value)))

RECURSIVE NestLookups(_, _)
NestLookups(query, keys) ==
    IF keys = <<>> THEN query
    ELSE IF ~contains(Head(keys), "__") THEN NestLookups(query, Tail(keys))
    ELSE NestLookups(NestOne(DictDel(query, Head(keys)), split1(Head(keys), "__"),
                             DictGet(query, Head(keys)),
                             IF DictHas(query, split1(Head(keys), "__")[1])
                             THEN DictGet(query, split1(Head(keys), "__")[1]).d ELSE <<>>),
                     Tail(keys))

Got(w, node, query, found, field_values) ==
    LoadFound([w EXCEPT !.ev = Append(w.ev, Event("get", node, [query |-> query, found |-> found,
                                                            records |-> Len(w.store)]))],
              node, found, field_values)

\* self.instance = manager.get(**query_filter)
Get(w, node, query, field_values) ==
    Got(w, node, query, Lookup(w.store, node.type, query), field_values)

RECURSIVE NewNode(_, _, _, _, _)
RECURSIVE ChildLoop(_, _, _, _, _, _)
\* the child is there (and saved): the query and the field values refer to it
ChildSaved(c, node, query, field_values, i, ext_result) ==
    IF c.err # NoExc THEN [w |-> c.w, err |-> c.err, node |-> node]
    ELSE ChildLoop([c.w EXCEPT !.ev = Append(c.w.ev,
                        Event("create_child", node,
                              [param |-> query[i][1], id |-> c.node.id,
                               action |-> c.node.action, pk |-> c.node.pk]))],
                   node, [query EXCEPT ![i] = <<query[i][1], RecRef(c.node.pk)>>],
                   DictSet(field_values, query[i][1], NodeRef(c.node.pk)), i + 1, ext_result)

ChildMadeNotSaved(c, node, query, field_values, i, ext_result) ==
    IF c.err # NoExc THEN [w |-> c.w, err |-> c.err, node |-> node]
    ELSE ChildSaved(c, node, query, field_values, i, ext_result)

\* "if model._action != self.GET: model.save()"
ChildMade(c, node, query, field_values, i, ext_result) ==
    IF c.err # NoExc THEN [w |-> c.w, err |-> c.err, node |-> node]
    ELSE ChildSaved(IF c.node.action # GET THEN save(c.w, c.node) ELSE c,
                    node, query, field_values, i, ext_result)

\* the loop over query_filter.items(): a child node per mapping value, then
\* the lookup of the node itself
ChildLoop(w, node, query, field_values, i, ext_result) ==
    IF i > Len(query) THEN Get(w, node, query, field_values)
    ELSE IF query[i][2].ty # "dict"
    THEN ChildLoop(w, node, query, field_values, i + 1, ext_result)
    ELSE IF ~ModelHasAttr(node.type, query[i][1]) \/ RelatedModel(node.type, query[i][1]) = ""
    THEN [w |-> w, err |-> AttributeError, node |-> node]
    ELSE ChildMade(NewNode(w, RelatedModel(node.type, query[i][1]), query[i][2].d, node.id,
                           ext_result),
                   node, query, field_values, i, ext_result)

\* ModelInstance._load_instance, with the translation of the store's
\* exceptions made by ModelInstance.__init__
load_instance(w, node, ext_result) ==
    IF node.action = GET
    THEN Get(w, node, map_query_values(node.filter), node.filter)
    ELSE IF node.action \in {UPDATE, CREATE_OR_UPDATE}
    THEN ChildLoop(w, node,
                   NestLookups(map_query_values(node.filter), DictKeys(node.filter)),
                   node.filter, 1, ext_result)
    ELSE LoadFound(w, node, {}, node.filter)

\* hs: the signals the field descriptor connects a handler to when it is set
SetField(node, field_name, value, hs) ==
    IF field_name = <<"deferred">>
    THEN [node EXCEPT !.deferred = value]
    ELSE IF ModelHasAttr(node.type, field_name)
    THEN connect([node EXCEPT !.rec.fields[field_name[1]] =
                                  IF value.ty = "node" THEN RecRef(value.pk) ELSE value,
                              !.applied = node.applied \cup {field_name}], hs)
    ELSE node

\* set_custom_field for every entry of self._custom_fields
RECURSIVE SetCustomFields(_, _)
SetCustomFields(rec, custom) ==
    IF custom = <<>> THEN rec
    ELSE SetCustomFields(
           [rec EXCEPT !.cf = [k \in DOMAIN rec.cf \cup {custom[1][1]} |->
                                  IF k = custom[1][1] THEN custom[1][2] ELSE rec.cf[k]]],
           Tail(custom))

\* the loop of _update_fields over self.attributes.items(), the custom
\* fields being set inside the loop body
RECURSIVE UpdateLoop(_, _, _)
UpdateLoop(node, items, hs) ==
    IF items = <<>> THEN node
    ELSE UpdateLoop([SetField(node, items[1][1], items[1][2], hs) EXCEPT
                        !.rec = SetCustomFields(@, node.custom_fields)],
                    Tail(items), hs)

\* the guard of _update_fields for the GET action: self.attributes[0] is
\* evaluated only when len(self.attributes) != 1, and 0 is never a key
GetGuardRaises(node) ==
    node.action = GET /\ node.attributes # <<>> /\ Len(node.attributes) # 1

\* ModelInstance._update_fields
update_fields(w, node) ==
    IF GetGuardRaises(node)
    THEN [w |-> w, err |-> KeyError, node |-> node]
    ELSE [w |-> w, err |-> NoExc, node |-> UpdateLoop(node, node.attributes, w.hs)]

AfterLoad(l) == IF l.err # NoExc THEN l ELSE update_fields(l.w, l.node)

AfterParse(p, ext_result) ==
    IF p.err # NoExc THEN p ELSE AfterLoad(load_instance(p.w, p.node, ext_result))

\* ModelInstance.__init__
NewNode(w, type, attributes, parent, ext_result) ==
    AfterParse(parse_attributes([w EXCEPT !.n = w.n + 1],
                                [InitNode(type, attributes) EXCEPT !.id = w.n + 1,
                                                                   !.parent = parent],
                                ext_result),
               ext_result)

--------------------------------------------------------------------------
(* The designs: what the caller hands to implement_design *)

K(name) == <<name>>

Directive(tag, arg) == <<"!", tag, ":", arg>>

\* the attribute mappings of the designs, by name
A ==
    [name |->
        << <<K("name"), Str(<<"a">>)>> >>,
     name_status |->
        << <<K("name"), Str(<<"b">>)>>, <<K("status"), Str(<<"x">>)>> >>,
     empty |->
        <<>>,
     \* a record without a name: full_clean() rejects it
     status_only |->
        << <<K("status"), Str(<<"x">>)>> >>,
     kwargs |->
        << <<K("name"), Str(<<"a">>)>>, <<K("nokey"), Str(<<"a">>)>> >>,
     value_ext |->
        << <<K("name"), Str(Directive("ref", "x"))>> >>,
     value_unknown |->
        << <<K("name"), Str(Directive("nope", "x"))>> >>,
     two_refs |->
        << <<K("name"), Str(Directive("ref", "x"))>>, <<K("status"), Str(Directive("ref", "y"))>> >>,
     value_no_arg |->
        << <<K("name"), Str(<<"!", "ref">>)>> >>,
     attr_ext |->
        << <<Directive("git", "x"), Str(<<"a">>)>>, <<K("name"), Str(<<"a">>)>> >>,
     unknown_tag |->
        << <<Directive("frob", "x"), Str(<<"a">>)>> >>,
     get |->
        << <<Directive("get", "name"), Str(<<"a">>)>> >>,
     get_missing |->
        << <<Directive("get", "name"), Str(<<"zz">>)>> >>,
     get_one_field |->
        << <<Directive("get", "name"), Str(<<"a">>)>>, <<K("status"), Str(<<"x">>)>> >>,
     get_two_fields |->
        << <<Directive("get", "name"), Str(<<"a">>)>>, <<K("status"), Str(<<"x">>)>>,
        <<K("name"), Str(<<"b">>)>> >>,
     get_deferred |->
        << <<Directive("get", "name"), Str(<<"a">>)>>, <<K("deferred"), Str(<<"yes">>)>> >>,
     update |->
        << <<Directive("update", "name"), Str(<<"a">>)>>, <<K("status"), Str(<<"x">>)>> >>,
     update_missing |->
        << <<Directive("update", "name"), Str(<<"zz">>)>> >>,
     create_or_update |->
        << <<Directive("create_or_update", "name"), Str(<<"b">>)>>, <<K("status"), Str(<<"x">>)>> >>,
     get_then_update |->
        << <<Directive("get", "name"), Str(<<"a">>)>>, <<Directive("update", "name"), Str(<<"a">>)>>,
        <<K("status"), Str(<<"y">>)>> >>,
     update_then_get |->
        << <<Directive("update", "name"), Str(<<"a">>)>>, <<Directive("get", "name"), Str(<<"a">>)>> >>,
     \* a node whose filter holds a relationship, looked up by a child GET node
     cou_child_get |->
        << <<Directive("create_or_update", "name"), Str(<<"b">>)>>,
        <<Directive("create_or_update", "region"), Dict(<< <<Directive("get", "name"), Str(<<"r">>)>> >>)>> >>,
     \* the same with a child that is created and saved
     cou_child_cou |->
        << <<Directive("create_or_update", "name"), Str(<<"b">>)>>,
        <<Directive("create_or_update", "region"),
        Dict(<< <<Directive("create_or_update", "name"), Str(<<"n">>)>> >>)>> >>,
     update_child_get |->
        << <<Directive("update", "name"), Str(<<"b">>)>>,
        <<Directive("update", "region"), Dict(<< <<Directive("get", "name"), Str(<<"r">>)>> >>)>> >>,
     \* the relationship written as "region__name"
     cou_shorthand |->
        << <<Directive("create_or_update", "name"), Str(<<"b">>)>>,
        <<(<<"!", "create_or_update", ":", "region", "__", "name">>), Str(<<"r">>)>> >>,
     custom_fields |->
        << <<K("name"), Str(<<"a">>)>>,
        <<K("custom_fields"), Dict(<< <<K("cf1"), Str(<<"v">>)>> >>)>> >>,
     \* custom fields on a node that has no field assignment left
     update_cf |->
        << <<Directive("update", "name"), Str(<<"a">>)>>,
        <<K("custom_fields"), Dict(<< <<K("cf1"), Str(<<"v">>)>> >>)>> >>,
     shorthand |->
        << <<(<<"name", "__", "slug">>), Str(<<"a">>)>> >>,
     no_arg |->
        << <<(<<"!", "get">>), Str(<<"a">>)>> >>,
     \* a list value and a dict value that hold a value extension string
     list_value |->
        << <<K("name"), List(<<Str(Directive("ref", "x")), Str(<<"a">>)>>)>> >>,
     dict_value |->
        << <<Directive("update", "name"), Str(<<"a">>)>>,
        <<K("region"), Dict(<< <<K("name"), Str(Directive("ref", "x"))>> >>)>> >>,
     \* the shorthand next to a mapping for the same relationship
     cou_nested |->
        << <<Directive("create_or_update", "region"),
        Dict(<< <<Directive("get", "status"), Str(<<"x">>)>> >>)>>,
        <<(<<"!", "create_or_update", ":", "region", "__", "name">>), Str(<<"r">>)>> >>,
     \* the shorthand next to a str for the same field
     update_str_nested |->
        << <<Directive("update", "name"), Str(<<"a">>)>>,
        <<(<<"!", "update", ":", "name", "__", "slug">>), Str(<<"s">>)>> >>,
     \* a mapping for a field that is no relationship
     update_status_map |->
        << <<Directive("update", "status"), Dict(<< <<K("name"), Str(<<"x">>)>> >>)>> >>]

\* the attribute mappings of the designs
AttrMaps ==
    {A.name, A.name_status, A.empty, A.status_only, A.kwargs, A.value_ext, A.value_unknown, A.two_refs,
     A.value_no_arg, A.attr_ext,
     A.unknown_tag, A.get, A.get_missing, A.get_one_field, A.get_two_fields, A.get_deferred,
     A.update, A.update_missing, A.create_or_update, A.get_then_update, A.update_then_get,
     A.custom_fields, A.update_cf, A.shorthand, A.no_arg, A.cou_child_get, A.cou_child_cou,
     A.update_child_get, A.cou_shorthand}

\* the top-level keys: the names of model_map and one that is not a model
DesignKeys == {"sites", "regions", "widgets"}

\* a top-level value: one attribute mapping, or a list of them
DesignValues ==
    {[isList |-> FALSE, items |-> <<a>>] : a \in AttrMaps}
    \cup {[isList |-> TRUE, items |-> <<>>]}
    \cup {[isList |-> TRUE, items |-> <<a, b>>] : a, b \in {A.name, A.empty, A.get}}
    \cup {[isList |-> TRUE, items |-> <<A.cou_child_get, b>>] :
             b \in {A.cou_child_get, A.update_child_get, A.cou_shorthand}}

\* Python truth of a top-level value: a non-empty dict or list
Truthy(value) == IF value.isList THEN value.items # <<>> ELSE value.items[1] # <<>>

\* what the attribute() method of an attribute extension returns
ExtResults ==
    {[ty |-> "none", k |-> <<>>, v |-> None, d |-> <<>>],
     [ty |-> "tuple", k |-> K("status"), v |-> Str(<<"t">>), d |-> <<>>],
     [ty |-> "dict", k |-> <<>>, v |-> None, d |-> << <<K("status"), Str(<<"d">>)>> >>],
     [ty |-> "other", k |-> <<>>, v |-> None, d |-> <<>>]}

\* the signals the field descriptors of a node connect handlers to
HandlerSets == {{}, {PRE_SAVE, POST_INSTANCE_SAVE, POST_SAVE}}

\* the keys of an attribute mapping that are action directives
ActionTags(attrs) ==
    {split(lstrip(attrs[i][1], "!"), ":")[1] : i \in {j \in DOMAIN attrs :
        /\ startswith(attrs[j][1], "!")
        /\ split(lstrip(attrs[j][1], "!"), ":")[1] \in {GET, UPDATE, CREATE_OR_UPDATE}}}

--------------------------------------------------------------------------
(* Builder *)

\* nothing constructed yet.  Otherwise: attrs the mapping, made the node
\* when its construction ended, node the node when save ended, built whether
\* the construction returned, err what was raised, before the store when
\* the construction started, ev what the nodes did
NoNode ==
    [attrs |-> <<>>, err |-> NoExc, node |-> InitNode("", <<>>), built |-> FALSE,
     made |-> InitNode("", <<>>), before |-> <<>>, ev |-> <<>>]

RECURSIVE create_objects(_, _, _, _, _)
LastNode(s, made, built, attrs, before) ==
    [attrs |-> attrs, err |-> s.err, node |-> s.node, built |-> built, made |-> made,
     before |-> before, ev |-> s.w.ev]

AfterSave(s, made, built, type, objects, ext_result, before) ==
    IF s.err # NoExc
    THEN [w |-> s.w, err |-> s.err, last |-> LastNode(s, made, built, Head(objects), before)]
    ELSE create_objects(s.w, type, Tail(objects), ext_result,
                        LastNode(s, made, built, Head(objects), before))

AfterNew(n, type, objects, ext_result, before) ==
    AfterSave(IF n.err # NoExc THEN n ELSE save(n.w, n.node), n.node, n.err = NoExc,
              type, objects, ext_result, before)

\* Builder._create_objects: a node is constructed and saved per mapping;
\* acc is the last node constructed so far
create_objects(w, type, objects, ext_result, acc) ==
    IF objects = <<>> THEN [w |-> w, err |-> NoExc, last |-> acc]
    ELSE AfterNew(NewNode([w EXCEPT !.ev = <<>>], type, Head(objects), 0, ext_result),
                  type, objects, ext_result, w.store)

Returned == Exc("", "returned")

NotCalled == Exc("", "not called")

\* the traversal: entries and maps count the entries and the mappings
\* consumed, keys are the keys consumed (the keys of a dict are distinct)
NoTrav == [entries |-> 0, maps |-> 0, allCreate |-> TRUE, completed |-> FALSE, keys |-> {}]

ZeroHooks == [e \in Extensions |-> 0]

\* the class of extension e defines the method hook
ClassDefines(e, hook) ==
    IF hook = "commit" THEN ExtClasses[e].commit ELSE ExtClasses[e].roll_back

HasHookOfClass(objs, e, hook) == ClassDefines(e, hook)

\* hasattr(extn["object"], hook): the extension was instantiated and its
\* class defines the hook (hasattr(None, hook) is False)
HasHook(objs, e, hook) == objs[e] > 0 /\ ClassDefines(e, hook)

\* no design is held as objects
NoHeap == [cells |-> <<>>, orig |-> <<>>, design |-> 0, pos |-> 0, objs |-> <<>>,
           err |-> NoExc, calls |-> 0]

\* Builder.__init__, and a caller that has called nothing yet
InitBuilder ==
    /\ store = InitStore
    /\ journal = NewJournal
    /\ logCalls = {}
    /\ extObject = [e \in Extensions |-> 0]
    /\ pc = "idle"
    /\ commitFlag = FALSE
    /\ exc = NoExc
    /\ result = NotCalled
    /\ hookIdx = 0
    /\ commitHooks = ZeroHooks
    /\ rollBackHooks = ZeroHooks
    /\ hookRaised = {}
    /\ hookLog = <<>>
    /\ commitCalls = 0
    /\ rollBackCalls = 0
    /\ startStore = InitStore
    /\ trav = NoTrav
    /\ last = NoNode

Init == InitBuilder /\ heap = NoHeap

JournalOfCallFresh(j) == NewJournal

\* the Journal a call of implement_design logs into: self.journal, which
\* Builder.__init__ created and no statement of implement_design assigns
JournalOfCall(j) == j

\* implement_design(design, commit) is called: the check of "not design"
ImplementDesign ==
    /\ pc = "idle"
    /\ \E empty \in BOOLEAN, commit \in BOOLEAN :
          /\ commitFlag' = commit
          /\ IF empty
             THEN pc' = "done" /\ result' = EmptyDesignError
             ELSE pc' = "traverse" /\ result' = NotCalled
    /\ exc' = NoExc
    /\ hookIdx' = 0
    /\ commitHooks' = ZeroHooks
    /\ rollBackHooks' = ZeroHooks
    /\ hookRaised' = {}
    /\ hookLog' = <<>>
    /\ commitCalls' = 0
    /\ rollBackCalls' = 0
    /\ startStore' = store
    /\ trav' = NoTrav
    /\ last' = NoNode
    /\ journal' = JournalOfCall(journal)
    /\ UNCHANGED <<heap, store, logCalls, extObject>>

\* what one iteration leaves behind; r is the outcome of its body
TraverseEnd(key, value, known, r) ==
    /\ Len(r.w.store) <= MaxRecords
    /\ store' = r.w.store
    /\ journal' = r.w.journal
    /\ logCalls' = r.w.logCalls
    /\ extObject' = r.w.objs
    /\ last' = r.last
    /\ trav' = [entries |-> trav.entries + 1,
                maps |-> trav.maps + Len(value.items), completed |-> FALSE,
                keys |-> trav.keys \cup {key},
                allCreate |-> trav.allCreate /\ known
                              /\ \A i \in DOMAIN value.items : ActionTags(value.items[i]) = {}]
    /\ IF r.err # NoExc
       THEN /\ pc' = "except"
            /\ exc' = r.err
            /\ rollBackCalls' = rollBackCalls + 1
            /\ hookIdx' = 1
       ELSE /\ pc' = "traverse"
            /\ UNCHANGED <<exc, rollBackCalls, hookIdx>>

TraverseBodyAnyKey(w, key, value, ext_result) ==
    IF Truthy(value)
    THEN create_objects(w, IF key \in DOMAIN model_map THEN model_map[key] ELSE "Site",
                        value.items, ext_result, last)
    ELSE [w |-> w, err |-> DesignImplementationError, last |-> last]

\* the body of the loop: "if key in self.model_map and value"
TraverseBody(w, key, value, ext_result) ==
    IF key \in DOMAIN model_map /\ Truthy(value)
    THEN create_objects(w, model_map[key], value.items, ext_result, last)
    ELSE [w |-> w, err |-> DesignImplementationError, last |-> last]

\* one iteration of "for key, value in design.items()"; an exception enters
\* the except clause, which calls roll_back()
TraverseOf(keys, values, results, handlers) ==
    /\ pc = "traverse"
    /\ trav.entries < MaxEntries
    /\ \E key \in keys \ trav.keys, value \in values, ext_result \in results,
          hs \in handlers :
          TraverseEnd(key, value, key \in DOMAIN model_map /\ Truthy(value),
                      TraverseBody([store |-> store, journal |-> journal, logCalls |-> logCalls,
                                    objs |-> extObject, ev |-> <<>>, n |-> 0, hs |-> hs],
                                   key, value, ext_result))
    /\ UNCHANGED <<heap, commitFlag, result, commitHooks, rollBackHooks, hookRaised, hookLog,
                   commitCalls, startStore>>

Traverse == TraverseOf(DesignKeys, DesignValues, ExtResults, HandlerSets)

SuccessCallCommit(commit) == "commit"

\* "if commit: self.commit() else: self.roll_back()"
SuccessCall(commit) == IF commit THEN "commit" ELSE "roll_back"

\* the loop over the design is exhausted: commit() or roll_back() is called
EndTraverse ==
    /\ pc = "traverse"
    /\ trav.entries >= 1
    /\ hookIdx' = 1
    /\ last' = NoNode
    /\ trav' = [trav EXCEPT !.completed = TRUE]
    /\ pc' = SuccessCall(commitFlag)
    /\ commitCalls' = commitCalls + (IF SuccessCall(commitFlag) = "commit" THEN 1 ELSE 0)
    /\ rollBackCalls' = rollBackCalls + (IF SuccessCall(commitFlag) = "roll_back" THEN 1 ELSE 0)
    /\ UNCHANGED <<heap, store, journal, logCalls, extObject, commitFlag, exc, result, commitHooks,
                   rollBackHooks, hookRaised, hookLog, startStore>>

AfterCommitExcept(raised) == "except"

\* where commit() leaves implement_design: in the except clause when a hook
\* raised, at the end of the try statement when commit() returned
AfterCommit(raised) == IF raised THEN "except" ELSE "done"

\* one iteration of the loop of Builder.commit; a hook that raises ends the
\* loop and enters the except clause of implement_design
CommitStep ==
    /\ pc = "commit"
    /\ IF hookIdx > Len(ExtClasses)
       THEN /\ pc' = AfterCommit(FALSE)
            /\ result' = Returned
            /\ hookIdx' = 1
            /\ UNCHANGED <<exc, commitHooks, hookRaised, hookLog, rollBackCalls>>
       ELSE IF HasHook(extObject, hookIdx, "commit")
       THEN /\ commitHooks' = [commitHooks EXCEPT ![hookIdx] = @ + 1]
            /\ hookLog' = Append(hookLog, <<"commit", hookIdx>>)
            /\ \E raises \in BOOLEAN :
                  IF raises
                  THEN /\ pc' = AfterCommit(TRUE)
                       /\ exc' = HookError("commit", hookIdx)
                       /\ hookRaised' = hookRaised \cup {<<"commit", hookIdx>>}
                       /\ rollBackCalls' = rollBackCalls + 1
                       /\ hookIdx' = 1
                       /\ UNCHANGED result
                  ELSE /\ hookIdx' = hookIdx + 1
                       /\ UNCHANGED <<pc, exc, result, hookRaised, rollBackCalls>>
       ELSE /\ hookIdx' = hookIdx + 1
            /\ UNCHANGED <<pc, exc, result, commitHooks, hookRaised, hookLog, rollBackCalls>>
    /\ UNCHANGED <<heap, store, journal, logCalls, extObject, commitFlag, rollBackHooks, commitCalls,
                   startStore, trav, last>>

\* one iteration of the loop of Builder.roll_back, called from the try body
\* (pc = "roll_back") or from the except clause (pc = "except"); a hook that
\* raises in the try body enters the except clause, one that raises in the
\* except clause reaches the caller
RollBackStep ==
    /\ pc \in {"roll_back", "except"}
    /\ last' = NoNode
    /\ IF hookIdx > Len(ExtClasses)
       THEN /\ pc' = "done"
            /\ result' = IF pc = "except" THEN exc ELSE Returned
            /\ UNCHANGED <<exc, hookIdx, rollBackHooks, hookRaised, hookLog, rollBackCalls>>
       ELSE IF HasHook(extObject, hookIdx, "roll_back")
       THEN /\ rollBackHooks' = [rollBackHooks EXCEPT ![hookIdx] = @ + 1]
            /\ hookLog' = Append(hookLog, <<"roll_back", hookIdx>>)
            /\ \E raises \in BOOLEAN :
                  IF ~raises
                  THEN /\ hookIdx' = hookIdx + 1
                       /\ UNCHANGED <<pc, exc, result, hookRaised, rollBackCalls>>
                  ELSE /\ hookRaised' = hookRaised \cup {<<"roll_back", hookIdx>>}
                       /\ IF pc = "roll_back"
                          THEN /\ pc' = "except"
                               /\ exc' = HookError("roll_back", hookIdx)
                               /\ rollBackCalls' = rollBackCalls + 1
                               /\ hookIdx' = 1
                               /\ UNCHANGED result
                          ELSE /\ pc' = "done"
                               /\ result' = HookError("roll_back", hookIdx)
                               /\ UNCHANGED <<exc, hookIdx, rollBackCalls>>
       ELSE /\ hookIdx' = hookIdx + 1
            /\ UNCHANGED <<pc, exc, result, rollBackHooks, hookRaised, hookLog, rollBackCalls>>
    /\ UNCHANGED <<heap, store, journal, logCalls, extObject, commitFlag, commitHooks, commitCalls,
                   startStore, trav>>

Next == ImplementDesign \/ Traverse \/ EndTraverse \/ CommitStep \/ RollBackStep

Spec == Init /\ [][Next]_vars

--------------------------------------------------------------------------
(* The Journal alone: log called with any identity and any created flag *)

\* the model type of a record identity
TypeOf(pk) == IF pk % 2 = 1 THEN "Site" ELSE "Region"

\* Journal.log(model) for a model with instance.pk = pk, _created = created
JournalLog ==
    /\ \E pk \in 1..MaxLogs, created \in BOOLEAN :
          /\ journal' = log(journal, pk, TypeOf(pk), created)
          /\ logCalls' = logCalls \cup {<<pk, created>>}
    /\ UNCHANGED <<heap, store, extObject, pc, commitFlag, exc, result, hookIdx, commitHooks,
                   rollBackHooks, hookRaised, hookLog, commitCalls, rollBackCalls,
                   startStore, trav, last>>

JournalSpec == Init /\ [][JournalLog]_vars

--------------------------------------------------------------------------
(* One Builder used for several calls of implement_design *)

\* the designs of the calls: one entry, a Site created, updated or looked up,
\* or named by a value extension
ReuseValues ==
    {[isList |-> FALSE, items |-> <<a>>] :
        a \in {A.name_status, A.update, A.create_or_update, A.get, A.update_missing,
               A.value_ext}}

\* one iteration of the traversal of such a design
ReuseTraverse ==
    TraverseOf({"sites"}, ReuseValues, {r \in ExtResults : r.ty = "none"}, {{}})

\* implement_design has returned or raised and the caller keeps the Builder
\* for another call
CallAgain ==
    /\ pc = "done"
    /\ pc' = "idle"
    /\ UNCHANGED <<heap, store, journal, logCalls, extObject, commitFlag, exc, result, hookIdx,
                   commitHooks, rollBackHooks, hookRaised, hookLog, commitCalls,
                   rollBackCalls, startStore, trav, last>>

ReuseNext ==
    ImplementDesign \/ ReuseTraverse \/ EndTraverse \/ CommitStep \/ RollBackStep \/ CallAgain

ReuseSpec == Init /\ [][ReuseNext]_vars

--------------------------------------------------------------------------
(* The design as objects: which dict or list each statement writes to *)

\* a dict or a list; of is the address of the object it was copied from
Cell(kind, items, of) == [kind |-> kind, items |-> items, of |-> of]

\* the caller builds the design: the items of a dict or list exist before
\* the object that holds them
RECURSIVE alloc(_, _)
RECURSIVE AllocItems(_, _, _, _)
alloc(cells, v) ==
    IF v.ty \in {"dict", "list"} THEN AllocItems(cells, v.ty, v.d, <<>>)
    ELSE [cells |-> cells, v |-> v]

AllocItems(cells, kind, d, acc) ==
    IF d = <<>>
    THEN [cells |-> Append(cells, Cell(kind, acc, 0)), v |-> Ref(Len(cells) + 1)]
    ELSE LET r == alloc(cells, d[1][2])
         IN AllocItems(r.cells, kind, Tail(d), Append(acc, <<d[1][1], r.v>>))

copyNone(cells, a) == [cells |-> cells, a |-> a]

\* {**attributes}, dict(value), list(value): a new object that holds the
\* items of the object at a
copy(cells, a) ==
    [cells |-> Append(cells, Cell(cells[a].kind, cells[a].items, a)), a |-> Len(cells) + 1]

\* Builder.resolve_values for a list or a dict: the items of the copy are
\* assigned one by one
RECURSIVE ResolveCell(_, _, _)
ResolveCell(w, a, i) ==
    IF i > Len(w.cells[a].items) THEN [w |-> w, err |-> NoExc, value |-> Ref(a)]
    ELSE LET r == resolve_value(w, w.cells[a].items[i][2])
         IN IF r.err # NoExc THEN [w |-> r.w, err |-> r.err, value |-> Ref(a)]
            ELSE ResolveCell([r.w EXCEPT !.cells[a].items[i] = <<@[1], r.value>>], a, i + 1)

\* Builder.resolve_values, the value being a str or a reference
resolve_values_at(w, value) ==
    IF IsStr(value) THEN resolve_value(w, value)
    ELSE IF value.ty = "ref"
    THEN LET c == copy(w.cells, value.a) IN ResolveCell([w EXCEPT !.cells = c.cells], c.a, 1)
    ELSE [w |-> w, err |-> NoExc, value |-> value]

\* self.attributes of the node being constructed
Attrs(st) == st.w.cells[st.node.self].items

\* an assignment to, or a pop from, self.attributes
SetAttrs(st, items) == [st EXCEPT !.w.cells[st.node.self].items = items]

TypeError == Exc("TypeError", "traversal")

\* what the attribute extension returned is put into self.attributes
ApplyExtensionAt(st1, ext_result) ==
    CASE ext_result.ty = "tuple" ->
           SetAttrs(st1, DictSet(Attrs(st1), ext_result.k, ext_result.v))
      [] ext_result.ty = "dict" ->
           [SetAttrs(st1, DictUpdate(Attrs(st1), ext_result.d)) EXCEPT
               !.names = st1.names \o DictKeys(ext_result.d)]
      [] ext_result.ty = "none" -> st1
      [] OTHER -> [st1 EXCEPT !.err = DesignImplementationError]

\* the key starts with "!": it is popped from self.attributes
ParseDirectiveAt(st, key, args, ext_result) ==
    LET st1 == SetAttrs(st, DictDel(Attrs(st), key))
        g == get_extension(st.w.objs, "attribute", args[1])
    IN IF g.extn # 0 THEN ApplyExtensionAt([st1 EXCEPT !.w.objs = g.objs], ext_result)
       ELSE IF args[1] \in {GET, UPDATE, CREATE_OR_UPDATE}
       THEN ApplyAction(st1, args, DictGet(Attrs(st), key), args[1])
       ELSE [st1 EXCEPT !.err = DesignImplementationError]

\* self.attributes[fieldname] = {"!get:" + search: self.attributes.pop(key)}:
\* the dict is a new object
ShorthandCells(cells, self, key, pieces, value) ==
    Append([cells EXCEPT ![self].items = DictSet(DictDel(@, key), pieces[1], Ref(Len(cells) + 1))],
           Cell("dict", << <<(<<"!", "get", ":">> \o pieces[2]), value>> >>, 0))

\* the body of the loop of _parse_attributes once the value is resolved
RECURSIVE ParseLoopAt(_, _)
ParseKeyAt(st1, key, ext_result) ==
    IF startswith(key, "!")
    THEN ParseLoopAt(ParseDirectiveAt(st1, key, split(lstrip(key, "!"), ":"), ext_result),
                     ext_result)
    ELSE IF contains(key, "__")
    THEN IF ~ModelHasAttr(st1.node.type, split1(key, "__")[1])
         THEN [st1 EXCEPT !.err = DesignImplementationError]
         ELSE ParseLoopAt([st1 EXCEPT !.w.cells =
                              ShorthandCells(st1.w.cells, st1.node.self, key,
                                             split1(key, "__"), DictGet(Attrs(st1), key))],
                          ext_result)
    ELSE IF ~NodeHasAttr(st1.node.type, key)
    THEN ParseLoopAt([SetAttrs(st1, DictDel(Attrs(st1), key)) EXCEPT
                         !.node.kwargs = DictSet(st1.node.kwargs, key, DictGet(Attrs(st1), key))],
                     ext_result)
    ELSE ParseLoopAt(st1, ext_result)

\* the loop of _parse_attributes over attribute_names:
\* self.attributes[key] = self.creator.resolve_values(self.attributes[key])
ParseLoopAt(st, ext_result) ==
    IF st.err # NoExc \/ st.names = <<>> THEN st
    ELSE IF ~DictHas(Attrs(st), Head(st.names))
    THEN [st EXCEPT !.names = Tail(st.names), !.err = KeyError]
    ELSE LET r == resolve_values_at(st.w, DictGet(Attrs(st), Head(st.names)))
         IN IF r.err # NoExc
            THEN [st EXCEPT !.names = Tail(st.names), !.w = r.w, !.err = r.err]
            ELSE ParseKeyAt([st EXCEPT !.names = Tail(st.names),
                                       !.w = [r.w EXCEPT !.cells[st.node.self].items =
                                                 DictSet(@, Head(st.names), r.value)]],
                            Head(st.names), ext_result)

\* ModelInstance._parse_attributes, self.attributes being the object at
\* node.self: self._custom_fields = self.attributes.pop("custom_fields", {}),
\* the loop over the keys that are left, then the default action
parse_attributes_at(w, node, ext_result) ==
    LET items == w.cells[node.self].items
        left == DictDel(items, <<"custom_fields">>)
        st == ParseLoopAt([w |-> [w EXCEPT !.cells[node.self].items = left],
                           err |-> NoExc, names |-> DictKeys(left),
                           node |-> [node EXCEPT !.custom_fields =
                                        IF DictHas(items, <<"custom_fields">>)
                                        THEN DictGet(items, <<"custom_fields">>) ELSE None]],
                          ext_result)
    IN [w |-> st.w, err |-> st.err,
        node |-> [st.node EXCEPT !.action = IF @ = NoAction THEN CREATE ELSE @]]

\* _map_query_values(query): the items of the new dict it returns, a
\* mapping value being mapped in turn into a new dict
RECURSIVE MapItems(_, _, _)
MapItems(cells, items, acc) ==
    IF items = <<>> THEN [cells |-> cells, items |-> acc]
    ELSE IF items[1][2].ty = "ref" /\ cells[items[1][2].a].kind = "dict"
    THEN LET r == MapItems(cells, cells[items[1][2].a].items, <<>>)
         IN MapItems(Append(r.cells, Cell("dict", r.items, items[1][2].a)), Tail(items),
                     Append(acc, <<items[1][1], Ref(Len(r.cells) + 1)>>))
    ELSE MapItems(cells, Tail(items), Append(acc, items[1]))

\* the loop of _load_instance over list(query_filter.keys()):
\* query_filter.setdefault(attribute, {}), the {} being a new object, then
\* query_filter[attribute]["!get:" + filter_param] = value, which assigns an
\* item of the object query_filter[attribute]; a str takes no item
RECURSIVE NestLookupsAt(_, _)
NestLookupsAt(q, keys) ==
    IF keys = <<>> \/ q.err # NoExc THEN q
    ELSE IF ~contains(Head(keys), "__") THEN NestLookupsAt(q, Tail(keys))
    ELSE LET pieces == split1(Head(keys), "__")
             popped == DictDel(q.items, Head(keys))
             q1 == IF DictHas(popped, pieces[1]) THEN [q EXCEPT !.items = popped]
                   ELSE [q EXCEPT !.cells = Append(q.cells, Cell("dict", <<>>, 0)),
                                  !.items = Append(popped, <<pieces[1], Ref(Len(q.cells) + 1)>>)]
             target == DictGet(q1.items, pieces[1])
         IN NestLookupsAt(
              IF target.ty = "ref" /\ q1.cells[target.a].kind = "dict"
              THEN [q1 EXCEPT !.cells[target.a].items =
                       DictSet(@, <<"!", "get", ":">> \o pieces[2], DictGet(q.items, Head(keys)))]
              ELSE [q1 EXCEPT !.err = TypeError],
              Tail(keys))

\* the last lines of _load_instance: self.model_class(**self._kwargs)
ConstructAt(w, node) ==
    [w |-> w, err |-> IF node.kwargs # <<>> THEN DesignImplementationError ELSE NoExc,
     node |-> node]

\* self.instance = manager.get(**query_filter) and what follows it; the
\* oracle says whether the k-th lookup of this iteration finds a record;
\* when nothing is found for create_or_update,
\* self.attributes.update(field_values)
GetAt(w, node, field_values) ==
    IF w.oracle[(w.k % Len(w.oracle)) + 1]
    THEN [w |-> [w EXCEPT !.k = @ + 1], err |-> NoExc, node |-> node]
    ELSE IF node.action = GET
    THEN [w |-> [w EXCEPT !.k = @ + 1], err |-> DoesNotExistError, node |-> node]
    ELSE IF node.action = UPDATE
    THEN [w |-> [w EXCEPT !.k = @ + 1], err |-> DesignImplementationError, node |-> node]
    ELSE ConstructAt([w EXCEPT !.k = @ + 1,
                               !.cells[node.self].items = DictUpdate(@, field_values)],
                     node)

\* save() of a node: it assigns no item of a dict or list; full_clean()
\* may reject the record
SaveAt(c) ==
    IF c.err = NoExc /\ c.node.action # GET /\ ~c.w.valid
    THEN [c EXCEPT !.err = DesignValidationError]
    ELSE c

RECURSIVE NewNodeAt(_, _, _, _)
RECURSIVE ChildLoopAt(_, _, _, _, _, _)
\* query_filter[query_param] = model.instance, field_values[query_param] = model
ChildMadeAt(c, node, query, field_values, i, ext_result) ==
    IF c.err # NoExc THEN [w |-> c.w, err |-> c.err, node |-> node]
    ELSE ChildLoopAt(c.w, node, [query EXCEPT ![i] = <<query[i][1], RecRef(0)>>],
                     DictSet(field_values, query[i][1], NodeRef(0)), i + 1, ext_result)

\* the loop over query_filter.items(): a child node per mapping value, made
\* from that mapping, then the lookup of the node itself
ChildLoopAt(w, node, query, field_values, i, ext_result) ==
    IF i > Len(query) THEN GetAt(w, node, field_values)
    ELSE IF ~(query[i][2].ty = "ref" /\ w.cells[query[i][2].a].kind = "dict")
    THEN ChildLoopAt(w, node, query, field_values, i + 1, ext_result)
    ELSE IF ~ModelHasAttr(node.type, query[i][1]) \/ RelatedModel(node.type, query[i][1]) = ""
    THEN [w |-> w, err |-> AttributeError, node |-> node]
    ELSE ChildMadeAt(SaveAt(NewNodeAt(w, query[i][2].a, RelatedModel(node.type, query[i][1]),
                                      ext_result)),
                     node, query, field_values, i, ext_result)

\* ModelInstance._load_instance: query_filter = _map_query_values(self._filter),
\* field_values = {**self._filter}
load_instance_at(w, node, ext_result) ==
    IF node.action = CREATE THEN ConstructAt(w, node)
    ELSE LET q == MapItems(w.cells, node.filter, <<>>)
             n == NestLookupsAt([cells |-> q.cells, items |-> q.items, err |-> NoExc],
                                DictKeys(q.items))
         IN IF node.action = GET THEN GetAt([w EXCEPT !.cells = q.cells], node, node.filter)
            ELSE IF n.err # NoExc
            THEN [w |-> [w EXCEPT !.cells = n.cells], err |-> n.err, node |-> node]
            ELSE ChildLoopAt([w EXCEPT !.cells = n.cells], node, n.items, node.filter, 1,
                             ext_result)

\* ModelInstance._update_fields: its assignments go to the record; the guard
\* for the GET action reads self.attributes
UpdateFieldsAt(l) ==
    IF l.err = NoExc /\ l.node.action = GET
       /\ l.w.cells[l.node.self].items # <<>> /\ Len(l.w.cells[l.node.self].items) # 1
    THEN [l EXCEPT !.err = KeyError]
    ELSE l

\* ModelInstance.__init__ for the attribute mapping at a:
\* self.attributes = {**attributes}, then _parse_attributes, _load_instance
\* and _update_fields
NewNodeAt(w, a, type, ext_result) ==
    LET c == copy(w.cells, a)
        p == parse_attributes_at([w EXCEPT !.cells = c.cells],
                                 [self |-> c.a, type |-> type, filter |-> <<>>,
                                  action |-> NoAction, kwargs |-> <<>>,
                                  custom_fields |-> None],
                                 ext_result)
    IN IF p.err # NoExc THEN p ELSE UpdateFieldsAt(load_instance_at(p.w, p.node, ext_result))

\* the loop of _create_objects over a list of attribute mappings; an item
\* that is no mapping cannot be unpacked by {**attributes}
RECURSIVE CreateEach(_, _, _, _)
CreatedOne(c, type, items, ext_result) ==
    IF c.err # NoExc THEN [w |-> c.w, err |-> c.err]
    ELSE CreateEach(c.w, type, Tail(items), ext_result)

CreateEach(w, type, items, ext_result) ==
    IF items = <<>> THEN [w |-> w, err |-> NoExc]
    ELSE IF items[1][2].ty # "ref" THEN [w |-> w, err |-> TypeError]
    ELSE CreatedOne(SaveAt(NewNodeAt(w, items[1][2].a, type, ext_result)), type, items,
                    ext_result)

\* the body of the loop of implement_design for an entry of the design, and
\* Builder._create_objects for the dict or list it holds
TraverseBodyAt(w, entry, ext_result) ==
    IF /\ Len(entry[1]) = 1 /\ entry[1][1] \in DOMAIN model_map
       /\ entry[2].ty = "ref" /\ w.cells[entry[2].a].items # <<>>
    THEN CreateEach(w, model_map[entry[1][1]],
                    IF w.cells[entry[2].a].kind = "dict" THEN << <<<<>>, entry[2]>> >>
                    ELSE w.cells[entry[2].a].items,
                    ext_result)
    ELSE [w |-> w, err |-> DesignImplementationError]

\* the attribute mappings of the designs held as objects
HeapMaps ==
    {A.name, A.empty, A.kwargs, A.value_ext, A.value_unknown, A.attr_ext, A.get, A.update,
     A.get_two_fields, A.cou_child_get, A.cou_child_cou, A.cou_shorthand, A.custom_fields,
     A.update_cf, A.shorthand, A.no_arg, A.list_value, A.dict_value, A.cou_nested,
     A.update_str_nested, A.update_status_map}

\* the designs: one entry, its value one attribute mapping or a list, or two
\* entries with a second key that may name no model
HeapDesigns ==
    {Dict(<< <<K("sites"), Dict(a)>> >>) : a \in HeapMaps}
    \cup {Dict(<< <<K("sites"), v>> >>) : v \in {List(<<>>), List(<<Str(<<"a">>)>>)}}
    \cup {Dict(<< <<K("sites"), List(<<Dict(a), Dict(b)>>)>> >>) :
             a, b \in {A.cou_child_get, A.custom_fields}}
    \cup {Dict(<< <<K("sites"), Dict(a)>>, <<K(k), Dict(b)>> >>) :
             a \in {A.cou_shorthand, A.dict_value}, k \in {"regions", "widgets"},
             b \in {A.update_cf, A.list_value}}

\* a Builder and a design built by the caller, none of its objects touched
HeapInit ==
    /\ InitBuilder
    /\ \E d \in HeapDesigns :
          LET r == alloc(<<>>, d)
          IN heap = [cells |-> r.cells, orig |-> r.cells, design |-> r.v.a, pos |-> 0,
                     objs |-> [e \in Extensions |-> 0], err |-> NoExc, calls |-> 0]

\* what one iteration of the loop of implement_design leaves behind
HeapAfter(r) ==
    [heap EXCEPT !.cells = r.w.cells, !.objs = r.w.objs, !.pos = @ + 1, !.err = r.err]

\* one iteration of "for key, value in design.items()" over the design held
\* as objects; an exception ends the call
HeapTraverse ==
    /\ heap.design # 0 /\ heap.err = NoExc
    /\ heap.pos < Len(heap.cells[heap.design].items)
    /\ \E found \in [1..2 -> BOOLEAN], valid \in BOOLEAN, ext_result \in ExtResults :
          heap' = HeapAfter(TraverseBodyAt([cells |-> heap.cells, objs |-> heap.objs,
                                            oracle |-> found, valid |-> valid, k |-> 0],
                                           heap.cells[heap.design].items[heap.pos + 1],
                                           ext_result))
    /\ UNCHANGED <<store, journal, logCalls, extObject, pc, commitFlag, exc, result, hookIdx,
                   commitHooks, rollBackHooks, hookRaised, hookLog, commitCalls,
                   rollBackCalls, startStore, trav, last>>

\* the caller calls Builder.resolve_values on a list or a mapping of the
\* design, before or after implement_design
HeapResolveValues ==
    /\ heap.design # 0 /\ heap.calls = 0
    /\ heap.pos = 0 \/ heap.err # NoExc \/ heap.pos = Len(heap.cells[heap.design].items)
    /\ \E a \in DOMAIN heap.orig :
          LET r == resolve_values_at([cells |-> heap.cells, objs |-> heap.objs], Ref(a))
          IN heap' = [heap EXCEPT !.cells = r.w.cells, !.objs = r.w.objs, !.calls = @ + 1]
    /\ UNCHANGED <<store, journal, logCalls, extObject, pc, commitFlag, exc, result, hookIdx,
                   commitHooks, rollBackHooks, hookRaised, hookLog, commitCalls,
                   rollBackCalls, startStore, trav, last>>

HeapNext == HeapTraverse \/ HeapResolveValues

HeapSpec == HeapInit /\ [][HeapNext]_vars

--------------------------------------------------------------------------
(* Properties *)

\* the identities of the records saved as new since the call started
NewPks == (Len(startStore) + 1)..Len(store)

\* implement_design has ended
Done == pc = "done"

\* an exception was raised while the design entries were traversed
TraversalRaised == exc.origin = "traversal"

\* the traversal has just constructed (or failed to construct) a node
AtNode == pc \in {"traverse", "except"} /\ last # NoNode

\* the field assignments left in a node other than the entry "deferred"
RealAssignments(node) ==
    {i \in DOMAIN node.attributes : node.attributes[i][1] # <<"deferred">>}

Invoked(hook, e) == IF hook = "commit" THEN commitHooks[e] ELSE rollBackHooks[e]

Entered(hook) == IF hook = "commit" THEN commitCalls ELSE rollBackCalls

\* C1: after implement_design(D, commit=true) returns for a design whose
\* nodes are all CREATE, one record was created per attribute mapping, the
\* Journal's created index holds exactly their identities and none of them
\* is in updated.
C1_CreatedIndexExact ==
    (Done /\ result = Returned /\ commitFlag /\ trav.allCreate)
        => /\ Len(store) = Len(startStore) + trav.maps
           /\ Identities(journal.created) = NewPks
           /\ Identities(journal.updated) \cap NewPks = {}

C3_ConflictFails ==
    (AtNode /\ Cardinality(ActionTags(last.attrs)) >= 2)
        => (last.err = DesignImplementationError /\ ~last.built)

\* C4: when the traversal raised, roll_back() was entered exactly once, no
\* commit hook ran and the caller gets the exception the traversal raised.
C4_OriginalPropagates ==
    (Done /\ TraversalRaised)
        => /\ rollBackCalls = 1
           /\ \A e \in Extensions : commitHooks[e] = 0
           /\ result = exc

\* C5 as stated: after a traversal without exception, commit() and not
\* roll_back() is called if commit is true, roll_back() and not commit() if
\* it is false.
C5_EitherOr ==
    (Done /\ trav.completed)
        => IF commitFlag THEN commitCalls >= 1 /\ rollBackCalls = 0
           ELSE rollBackCalls >= 1 /\ commitCalls = 0

\* C5 amended: after a traversal without exception, with commit true
\* commit() is called once and roll_back() is called (once) exactly when a
\* commit hook raised; with commit false roll_back() is called and commit()
\* is not.
C5_CommitThenRollBackOnlyOnRaise ==
    (Done /\ trav.completed)
        => IF commitFlag
           THEN /\ commitCalls = 1
                /\ rollBackCalls = (IF \E e \in Extensions : <<"commit", e>> \in hookRaised
                                    THEN 1 ELSE 0)
           ELSE rollBackCalls >= 1 /\ commitCalls = 0

\* C5 witness: commit was true, a commit hook raised and roll_back() ran
C5_CommitRaised ==
    /\ Done /\ trav.completed /\ commitFlag /\ commitCalls = 1 /\ rollBackCalls = 1
    /\ \E e \in Extensions : <<"commit", e>> \in hookRaised

\* C6: whenever implement_design ends with an error, roll_back() has run.
C6_RollBackBeforeError ==
    (Done /\ result # Returned) => rollBackCalls >= 1

\* C7 as stated: commit() / roll_back() invoke the hook of every registered
\* extension whose class defines it, instantiated or not.
C7_EveryRegistered ==
    \A hook \in {"commit", "roll_back"} :
        (Done /\ Entered(hook) >= 1 /\ hookRaised = {})
            => \A e \in Extensions : ClassDefines(e, hook) => Invoked(hook, e) >= 1

\* C7 amended: commit() / roll_back() invoke the hook of the registered
\* extensions that were instantiated through get_extension and whose class
\* defines it, in registration order up to a hook that raises; the hook of
\* an extension that was never instantiated is not invoked.
C7_InstantiatedOnly ==
    /\ \A hook \in {"commit", "roll_back"}, e \in Extensions :
          Invoked(hook, e) >= 1 => extObject[e] > 0 /\ ClassDefines(e, hook)
    /\ \A hook \in {"commit", "roll_back"} :
          (Done /\ Entered(hook) >= 1)
              => \A e \in Extensions :
                    (extObject[e] > 0 /\ ClassDefines(e, hook))
                        => \/ Invoked(hook, e) >= 1
                           \/ \E f \in 1..(e - 1) : <<hook, f>> \in hookRaised

\* C7 witness: commit() returned having run the hook of the instantiated
\* extension and skipped a hook-defining extension never instantiated
C7_SkippedUninstantiated ==
    /\ Done /\ result = Returned /\ commitFlag
    /\ \E e, f \in Extensions :
          /\ extObject[e] > 0 /\ commitHooks[e] = 1
          /\ extObject[f] = 0 /\ ExtClasses[f].commit /\ commitHooks[f] = 0

\* C8: commit() and roll_back() run the hook of every extension that has
\* one even when the hook of another extension raises.
C8_BestEffort ==
    \A hook \in {"commit", "roll_back"} :
        (Done /\ Entered(hook) >= 1)
            => \A e \in Extensions : HasHook(extObject, e, hook) => Invoked(hook, e) >= 1

\* C9: in one implement_design call no commit hook and no roll_back hook
\* runs more than once.
C9_HooksAtMostOnce ==
    \A e \in Extensions : commitHooks[e] <= 1 /\ rollBackHooks[e] <= 1

\* C10: the construction of a GET node whose mapping holds a real field
\* assignment fails, and no field assignment is applied to its record.
C10_GetRejectsAssignments ==
    (AtNode /\ last.node.action = GET /\ RealAssignments(last.node) # {})
        => (last.err # NoExc /\ ~last.built /\ last.node.applied = {})

\* the tags get_extension is asked for: registered ones and others
SomeTags == {<<"git">>, <<"ref">>, <<"next">>, <<"nope">>, <<"get">>}

\* C15: get_extension returns None for a tag that is not registered and
\* changes nothing; for a registered one it returns the extension's
\* instance, made on the first access and kept afterwards: no extension
\* class is instantiated more than once by a Builder.
C15_InstantiatedOnce ==
    /\ \A e \in Extensions : extObject[e] <= 1
    /\ \A ext_type \in {"attribute", "value"}, tag \in SomeTags :
          IF Registered(ext_type, tag) = 0
          THEN get_extension(extObject, ext_type, tag) = [objs |-> extObject, extn |-> 0]
          ELSE /\ get_extension(extObject, ext_type, tag).extn = Registered(ext_type, tag)
               /\ get_extension(extObject, ext_type, tag).objs[Registered(ext_type, tag)] = 1
               /\ \A f \in Extensions \ {Registered(ext_type, tag)} :
                     get_extension(extObject, ext_type, tag).objs[f] = extObject[f]

\* C15 witness: one mapping resolved two values through the same value
\* extension, which was instantiated once
C15_TwoLookups ==
    /\ Done /\ result = Returned /\ extObject[2] = 1
    /\ \E pk \in NewPks :
          /\ store[pk].fields["name"] = ExtValue(2, <<"x">>)
          /\ store[pk].fields["status"] = ExtValue(2, <<"y">>)

\* the positions of the events op of the last node constructed by the Builder
NodeEvents(op) ==
    {i \in DOMAIN last.ev : last.ev[i].op = op /\ last.ev[i].node = last.made.id}

\* the store lookup of that node ran and found the records of the set S
LookupFound(S) == \E i \in NodeEvents("get") : last.ev[i].arg.found = S

\* the record of the child node made for the filter criterion param
ChildRecord(param) ==
    RecRef(last.ev[CHOOSE i \in NodeEvents("create_child") : last.ev[i].arg.param = param].arg.pk)

\* the value a field holds for the filter criterion <<param, value>>
CriterionValue(param, value) == IF value.ty = "dict" THEN ChildRecord(param) ELSE value

\* C11: a CREATE_OR_UPDATE node whose lookup matched nothing is built on a
\* new record with _created true, every filter criterion is among its
\* attributes, and the fields of the record hold the criteria values, a
\* relationship holding the record of the child node (field__search
\* criteria included); the saved record holds them too.
C11_FoldedBack ==
    (AtNode /\ last.built /\ last.made.action = CREATE_OR_UPDATE /\ LookupFound({}))
        => /\ last.made.created /\ last.made.pk = 0
           /\ \A i \in DOMAIN last.made.filter :
                 /\ DictHas(last.made.attributes, last.made.filter[i][1])
                 /\ ModelHasAttr(last.made.type, last.made.filter[i][1])
                       => last.made.rec.fields[last.made.filter[i][1][1]]
                            = CriterionValue(last.made.filter[i][1], last.made.filter[i][2])
                 /\ contains(last.made.filter[i][1], "__")
                       => last.made.rec.fields[last.made.filter[i][1][1]]
                            = ChildRecord(<<last.made.filter[i][1][1]>>)
           /\ last.err = NoExc
                 => /\ last.node.pk \notin DOMAIN last.before
                    /\ store[last.node.pk].fields = last.made.rec.fields

\* C11 witness: such a node with a relationship criterion was saved
C11_CreatedWithChild ==
    /\ AtNode /\ last.built /\ last.err = NoExc
    /\ last.made.action = CREATE_OR_UPDATE /\ LookupFound({})
    /\ NodeEvents("create_child") # {}
    /\ store[last.node.pk].fields["region"].ty = "rec"

\* the number of records the store held when the lookup of the last node ran
RecordsAtLookup == last.ev[CHOOSE i \in NodeEvents("get") : TRUE].arg.records

\* C12: an UPDATE or CREATE_OR_UPDATE node whose lookup matched one record
\* is built on that record with _created false, and its save() keeps the
\* identity of the record and adds no record to the store.
C12_FoundIsKept ==
    \A pk \in DOMAIN store :
        (AtNode /\ last.built /\ last.made.action \in {UPDATE, CREATE_OR_UPDATE}
                /\ LookupFound({pk}))
            => /\ last.made.pk = pk /\ ~last.made.created
               /\ last.err = NoExc
                     => /\ last.node.pk = pk
                        /\ Len(store) = RecordsAtLookup
                        /\ store[pk].type = last.made.type

\* C12 witness: an UPDATE node found the record, set a field and saved it
C12_UpdatedInPlace ==
    /\ AtNode /\ last.built /\ last.err = NoExc /\ last.made.action = UPDATE
    /\ LookupFound({1}) /\ last.node.pk = 1
    /\ store[1].fields["status"] = Str(<<"x">>)

\* the keys of the design that name no model
UnknownKeys == DesignKeys \ DOMAIN model_map

\* the traversal raised the unknown-model-key error
UnknownKeyRaised ==
    pc = "except" /\ exc = DesignImplementationError /\ trav.keys \cap UnknownKeys # {}

\* C13 as stated: when implement_design fails on an unknown top-level key,
\* no record has been created or updated and nothing has been logged.
C13_UnknownKeyBeforeAnyNode ==
    UnknownKeyRaised => (store = startStore /\ journal = NewJournal)

\* C13 amended: the keys are checked one entry at a time, in the order of
\* the design: the step that meets an unknown key constructs and saves
\* nothing and raises the design-implementation error, whatever the entries
\* before it have created; an empty design ends the call with nothing done.
C13_UnknownKeyAtItsTurn ==
    [][/\ (pc = "traverse" /\ (trav'.keys \ trav.keys) \cap UnknownKeys # {})
            => /\ pc' = "except" /\ exc' = DesignImplementationError
               /\ store' = store /\ journal' = journal /\ extObject' = extObject
       /\ (pc = "idle" /\ result' = EmptyDesignError)
            => (pc' = "done" /\ store' = store /\ journal' = journal)]_vars

\* C13 witness: the unknown key was met after an entry that saved a record
C13_SavedBeforeUnknownKey ==
    UnknownKeyRaised /\ trav.entries = 2 /\ Len(store) > Len(startStore) /\ journal.index # {}

\* the value matches the grammar "!tag:arg" of value extensions
Grammar(v) == IsStr(v) /\ startswith(v.s, "!") /\ contains(v.s, ":")

\* C14: through resolve_values, a value that does not match "!tag:arg" is
\* the value the field gets; a value that matches becomes what the value
\* extension registered for the tag returns, and the construction fails
\* with the design-implementation error when none is registered.
C14_ResolveValue ==
    (AtNode /\ Len(last.attrs) = 1 /\ last.attrs[1][1] = K("name"))
        => IF ~Grammar(last.attrs[1][2])
           THEN last.built /\ last.made.rec.fields["name"] = last.attrs[1][2]
           ELSE IF Registered("value", split1(lstrip(last.attrs[1][2].s, "!"), ":")[1]) # 0
           THEN /\ last.built
                /\ last.made.rec.fields["name"]
                      = ExtValue(Registered("value", split1(lstrip(last.attrs[1][2].s, "!"), ":")[1]),
                                 split1(lstrip(last.attrs[1][2].s, "!"), ":")[2])
           ELSE ~last.built /\ last.err = DesignImplementationError

\* the nodes of the last mapping whose action is GET: the node the Builder
\* constructed and the children made for its relationship criteria
GetNodes ==
    (IF last.made.action = GET THEN {last.made.id} ELSE {})
    \cup {last.ev[i].arg.id : i \in {j \in NodeEvents("create_child") : last.ev[j].arg.action = GET}}

\* the steps a node takes inside save()
SaveOps ==
    {PRE_SAVE, "send_refresh", "full_clean", "save", "clear_created", "log", "refresh_from_db",
     POST_INSTANCE_SAVE, POST_SAVE}

\* the positions of the events op of node n
EventsOf(op, n) == {i \in DOMAIN last.ev : last.ev[i].op = op /\ last.ev[i].node = n}

\* C16: a GET node takes no step of save(): no handler fires, nothing is
\* written to the store and nothing is logged; a top-level GET node leaves
\* the store as it was, and after the first mapping of a call the Journal
\* holds exactly the records saved by the nodes that are not GET.
C16_GetNeverSaved ==
    AtNode
        => /\ \A i \in DOMAIN last.ev : last.ev[i].node \in GetNodes => last.ev[i].op \notin SaveOps
           /\ (last.built /\ last.made.action = GET) => store = last.before
           /\ trav.maps = 1
                 => journal.index = {last.ev[i].arg : i \in {j \in DOMAIN last.ev :
                                        last.ev[j].op = "log" /\ last.ev[j].node \notin GetNodes}}

\* C16 witness: a site was saved whose region was looked up by a child GET
\* node; the region is in no index of the Journal
C16_RegionOnlyLookedUp ==
    /\ AtNode /\ last.built /\ last.err = NoExc /\ trav.maps = 1
    /\ \E i \in NodeEvents("create_child") :
          /\ last.ev[i].arg.action = GET
          /\ last.ev[i].arg.pk \notin journal.index
          /\ store[last.node.pk].fields["region"] = RecRef(last.ev[i].arg.pk)
    /\ last.node.pk \in journal.index

\* C17: an UPDATE node whose lookup matched nothing fails with the
\* design-implementation error: no record is constructed for it, it takes
\* no step of save() and the store holds what it held when the lookup ran.
C17_UpdateNoMatch ==
    (AtNode /\ last.made.action = UPDATE /\ LookupFound({}))
        => /\ ~last.built /\ last.err = DesignImplementationError
           /\ ~last.made.loaded /\ last.made.pk = 0 /\ ~last.made.created
           /\ \A i \in DOMAIN last.ev : last.ev[i].node = last.made.id => last.ev[i].op \notin SaveOps
           /\ Len(store) = RecordsAtLookup

\* C17 witness: an UPDATE node with a relationship criterion found nothing
\* after its child had been looked up
C17_NoMatchAfterChild ==
    /\ AtNode /\ last.made.action = UPDATE /\ LookupFound({}) /\ ~last.built
    /\ NodeEvents("create_child") # {}

\* the filter criteria of the last node that are relationships: a mapping
\* value, or a key "field__search"
RelationParams ==
    {last.made.filter[i][1] : i \in {j \in DOMAIN last.made.filter : last.made.filter[j][2].ty = "dict"}}
    \cup {<<last.made.filter[i][1][1]>> : i \in {j \in DOMAIN last.made.filter :
                                                    contains(last.made.filter[j][1], "__")}}

\* C18: when the lookup of an UPDATE or CREATE_OR_UPDATE node runs, a child
\* node has been constructed for every relationship criterion; each child
\* that is not GET was saved before the lookup, and the query of the lookup
\* holds the record of the child in place of the mapping.
C18_ChildBeforeLookup ==
    (AtNode /\ last.made.action \in {UPDATE, CREATE_OR_UPDATE})
        => \A g \in NodeEvents("get") :
              /\ \A param \in RelationParams :
                    \E c \in NodeEvents("create_child") : last.ev[c].arg.param = param
              /\ \A c \in NodeEvents("create_child") :
                    /\ c < g
                    /\ last.ev[c].arg.action # GET
                          => \E k \in EventsOf("save", last.ev[c].arg.id) :
                                k < g /\ last.ev[k].arg = last.ev[c].arg.pk
                    /\ last.ev[c].arg.pk \in 1..last.ev[g].arg.records
                    /\ DictGet(last.ev[g].arg.query, last.ev[c].arg.param) = RecRef(last.ev[c].arg.pk)

\* C18 witness: the lookup ran after a child that is not GET was saved
C18_ChildSavedFirst ==
    /\ AtNode /\ last.made.action = CREATE_OR_UPDATE /\ NodeEvents("get") # {}
    /\ \E c \in NodeEvents("create_child") :
          last.ev[c].arg.action = CREATE_OR_UPDATE /\ EventsOf("save", last.ev[c].arg.id) # {}

\* the nodes that took a step in the last mapping
EventNodes == {last.ev[i].node : i \in DOMAIN last.ev}

\* every event a of node n comes before every event b of node n
Before(a, b, n) == \A i \in EventsOf(a, n), j \in EventsOf(b, n) : i < j

\* the steps of save() after the PRE_SAVE handlers, in the order claimed
SaveOrder ==
    <<"full_clean", "save", "clear_created", "log", "refresh_from_db", POST_INSTANCE_SAVE, POST_SAVE>>

\* C19: the steps of save() on a node come in this order: PRE_SAVE
\* handlers, full_clean, save of the record, _created cleared, Journal.log,
\* reload, POST_INSTANCE_SAVE handlers, POST_SAVE handlers; a save() that
\* persisted took each step but the handlers exactly once, and every
\* connected handler fired; no POST handler precedes the save or the log.
C19_SaveOrder ==
    AtNode
        => \A n \in EventNodes :
              /\ Before(PRE_SAVE, "full_clean", n)
              /\ \A x, y \in DOMAIN SaveOrder : x < y => Before(SaveOrder[x], SaveOrder[y], n)
              /\ EventsOf("save", n) # {}
                    => /\ \A x \in 1..5 : Cardinality(EventsOf(SaveOrder[x], n)) = 1
                       /\ n = last.node.id
                             => \A sig \in {PRE_SAVE, POST_INSTANCE_SAVE, POST_SAVE} :
                                   (sig \in last.node.signals) = (EventsOf(sig, n) # {})

\* C19 witness: a node with handlers connected to the three signals was saved
C19_SavedWithHandlers ==
    /\ AtNode /\ last.built /\ last.err = NoExc
    /\ \A sig \in {PRE_SAVE, POST_INSTANCE_SAVE, POST_SAVE} : NodeEvents(sig) # {}
    /\ NodeEvents("log") # {}

\* C20: when full_clean() rejects the record of a node, save() fails with
\* the design-validation error: the node saves no record, logs nothing and
\* fires no POST_INSTANCE_SAVE or POST_SAVE handler; without children the
\* store is what it was before the node.
C20_ValidationFailure ==
    (AtNode /\ last.built /\ ~Valid(last.made.rec) /\ last.made.action # GET)
        => /\ last.err = DesignValidationError
           /\ NodeEvents("full_clean") # {}
           /\ \A op \in {"save", "clear_created", "log", "refresh_from_db",
                          POST_INSTANCE_SAVE, POST_SAVE} : NodeEvents(op) = {}
           /\ NodeEvents("create_child") = {} => store = last.before
           /\ trav.maps = 1 /\ NodeEvents("create_child") = {} => journal = NewJournal

\* C20 witness: the record was rejected after a PRE_SAVE handler had fired
C20_RejectedAfterPreSave ==
    /\ AtNode /\ last.built /\ last.err = DesignValidationError
    /\ NodeEvents(PRE_SAVE) # {} /\ POST_SAVE \in last.node.signals

\* C21: when _parse_attributes returns, the node (a child node too) has one
\* action of ACTION_CHOICES, its filter is empty exactly when the action is
\* CREATE, and the action of a node the Builder constructed is CREATE
\* exactly when its mapping holds no action directive.
C21_OneActionAndFilter ==
    AtNode
        => \A i \in DOMAIN last.ev :
              last.ev[i].op = "parsed"
                  => /\ last.ev[i].arg.action \in ACTION_CHOICES
                     /\ (last.ev[i].arg.action = CREATE) = (last.ev[i].arg.filter = <<>>)
                     /\ last.ev[i].node = last.made.id
                           => /\ last.made.action = last.ev[i].arg.action
                              /\ (last.made.action = CREATE) = (ActionTags(last.attrs) = {})

\* C21 witness: a node and its child were parsed, both with an action
\* directive and a filter
C21_ParsedWithChild ==
    /\ AtNode /\ last.built
    /\ \E i, j \in DOMAIN last.ev :
          /\ last.ev[i].op = "parsed" /\ last.ev[j].op = "parsed"
          /\ last.ev[i].node # last.ev[j].node
          /\ last.ev[i].arg.action = CREATE_OR_UPDATE /\ last.ev[j].arg.action = GET
          /\ last.ev[i].arg.filter # <<>> /\ last.ev[j].arg.filter # <<>>

\* C22: a node that was built has every entry of its custom_fields on its
\* record, whether or not it has field assignments.
C22_CustomFieldsApplied ==
    (AtNode /\ last.built)
        => \A i \in DOMAIN last.made.custom_fields :
              /\ last.made.custom_fields[i][1] \in DOMAIN last.made.rec.cf
              /\ last.made.rec.cf[last.made.custom_fields[i][1]] = last.made.custom_fields[i][2]

\* C25 as stated: in one call, no roll_back hook is invoked after a commit
\* hook has been invoked.
C25_CommitExcludesRollBack ==
    \A i, j \in DOMAIN hookLog :
        (i < j /\ hookLog[i][1] = "commit") => hookLog[j][1] # "roll_back"

\* C25 amended: in one call, a roll_back hook is invoked after a commit hook
\* only when a commit hook raised, in which case commit() was left at that
\* hook; no commit hook is ever invoked after a roll_back hook.
C25_RollBackAfterCommitOnlyOnRaise ==
    \A i, j \in DOMAIN hookLog :
        /\ (i < j /\ hookLog[i][1] = "commit" /\ hookLog[j][1] = "roll_back")
              => \E k \in DOMAIN hookLog :
                    /\ k < j /\ hookLog[k][1] = "commit" /\ <<"commit", hookLog[k][2]>> \in hookRaised
                    /\ \A m \in (k + 1)..Len(hookLog) : hookLog[m][1] = "roll_back"
        /\ (i < j /\ hookLog[i][1] = "roll_back") => hookLog[j][1] = "roll_back"

\* C25 witness: the commit hook of one extension returned, that of the next
\* raised, and the roll_back hooks of both were invoked after it
C25_RolledBackAfterCommit ==
    /\ Done /\ commitFlag
    /\ Len(hookLog) >= 4
    /\ hookLog[1] = <<"commit", 1>> /\ hookLog[2] = <<"commit", 2>>
    /\ hookRaised = {<<"commit", 2>>}
    /\ hookLog[3] = <<"roll_back", 1>> /\ hookLog[4] = <<"roll_back", 2>>

\* the record of the last top-level node was saved by an earlier call on the
\* same Builder, which created it
MadeByEarlierCall ==
    /\ last.made.pk > Len(InitStore)
    /\ last.made.pk <= Len(startStore)

\* C23 as stated: the Journal a call of implement_design logs into holds no
\* identity logged by an earlier call on the same Builder.
C23_FreshJournalPerCall ==
    (pc = "traverse" /\ trav.entries = 0) => journal = NewJournal

\* C23 amended: the Journal lives as long as the Builder: no step of any call
\* removes an identity from visited, created or updated, and a call starts
\* with the Journal the call before it left.
C23_JournalOutlivesCall ==
    [][/\ journal.index \subseteq journal'.index
       /\ Identities(journal.created) \subseteq Identities(journal'.created)
       /\ Identities(journal.updated) \subseteq Identities(journal'.updated)
       /\ pc = "idle" => journal' = journal]_vars

\* C23 witness: a call has saved, as an update, a record that an earlier call
\* on the same Builder saved as new and logged; save() called Journal.log for
\* it again, and the Journal holds it from the earlier call
C23_TouchedInTwoCalls ==
    /\ AtNode /\ last.built /\ last.err = NoExc
    /\ last.made.action \in {UPDATE, CREATE_OR_UPDATE}
    /\ MadeByEarlierCall
    /\ last.node.pk = last.made.pk
    /\ \E i \in DOMAIN last.ev : last.ev[i].op = "log" /\ last.ev[i].arg = last.made.pk
    /\ last.made.pk \in journal.index

\* an object made by copying an object of the design
CopiesOfDesign == {c \in DOMAIN heap.cells : heap.cells[c].of \in DOMAIN heap.orig}

\* C24: whatever implement_design and resolve_values do, and whether they
\* return or raise, every dict and list of the design holds the items it
\* held when the caller built it.
C24_DesignNotMutated ==
    \A a \in DOMAIN heap.orig : heap.cells[a] = heap.orig[a]

\* C24 witness: implement_design has consumed an attribute mapping with a
\* directive key and popped that key from its copy of the mapping, and
\* resolve_values has been called on an object of the design
C24_CopyWritten ==
    /\ heap.pos >= 1 /\ heap.calls = 1
    /\ \E c \in CopiesOfDesign :
          /\ \E i \in DOMAIN heap.orig[heap.cells[c].of].items :
                /\ startswith(heap.orig[heap.cells[c].of].items[i][1], "!")
                /\ ~DictHas(heap.cells[c].items, heap.orig[heap.cells[c].of].items[i][1])

====
